---- MODULE Spec2Model ----
(***************************************************************************)
(* A model of the lawg crate (src/lib.rs): the Logger struct, its          *)
(* constructor and its eight write operations, over one log file, the      *)
(* standard output and the process exit status.                            *)
(*                                                                         *)
(* File content and console output are sequences of tokens: a formatted    *)
(* line is a record, "\n" is the token NL, and text that was in the file   *)
(* before the program ran is the token Old.                                *)
(***************************************************************************)
EXTENDS Integers, Sequences, FiniteSets, TLC

\* ---------------------------------------------------------------- bounds
MaxFile == 3        \* a file operation is started only while the file is shorter than this (tokens)
MaxStdout == 1      \* a console operation is started only while stdout has fewer lines than this

\* ------------------------------------------------------------- constants
ExitFailure == 1        \* std::process::exit(1)
PanicExitCode == 101    \* exit status of a Rust process whose main thread panicked
NoExit == 0 - 1         \* the process is still running

Threads == {1, 2}
MainThread == 1
Names == {"Svc"}
Msgs == {"hello", "bad"}
None == "None"
Path == "out.txt"

NL == [kind |-> "nl"]
Old == [kind |-> "text"]

NoLogger == [built |-> FALSE]

NoFault == ""
NotProvided == "Log file not provided."
CouldNotRead == "Could not read log file"
CouldNotCreate == "Could not create log file"

ConsoleOps == {"log", "error", "error_and_stop"}
FileOps == {"log_to_file", "error_to_file", "error_and_stop_to_file"}
BothOps == {"log_and_log_to_file", "error_and_error_to_file"}
Ops == ConsoleOps \cup FileOps \cup BothOps

VARIABLES
    fs,         \* the log file: [exists, content]
    stdout,     \* lines printed so far
    exit_code,  \* NoExit while the process runs, else its exit status
    logger,     \* logger[t]: the Logger thread t holds, or NoLogger
    pc,         \* pc[t]: position of thread t inside the call it is running
    op,         \* op[t]: the function thread t is running
    msg,        \* msg[t]: its msg argument
    arg,        \* arg[t]: the Logger that Logger::new is building
    buf,        \* buf[t]: file_log_content, the content the call read
    fault       \* fault[t]: the panic message of thread t

vars == <<fs, stdout, exit_code, logger, pc, op, msg, arg, buf, fault>>

\* ------------------------------------------------------------ formatting
\* {:?} of Utc::now().to_string() / Local::now().to_string(): the current time
\* in the chosen zone, in quotes.  The instant itself is not modelled.
Stamp(use_utc) ==
    [zone |-> IF use_utc THEN "UTC" ELSE "Local", quoted |-> TRUE]

\* "{} - [{:?}]: {}" and "ERROR: {} - [{:?}]: {}"
FormatLine(prefix, lg, m) ==
    [kind |-> "line", prefix |-> prefix, name |-> lg.logger_name,
     stamp |-> Stamp(lg.use_utc), msg |-> m]

\* mutant: the copy in error_and_stop_to_file loses its "ERROR: "
PrefixForgetsStop(o) ==
    IF o \in {"error", "error_to_file", "error_and_error_to_file", "error_and_stop"}
    THEN "ERROR: " ELSE ""

Prefix(o) ==
    IF o \in {"error", "error_to_file", "error_and_error_to_file",
              "error_and_stop", "error_and_stop_to_file"}
    THEN "ERROR: " ELSE ""

\* ------------------------------------------------------------ control flow
\* mutant: the combined operations skip their console half
FirstStepFileFirst(o) == IF o \in FileOps \cup BothOps THEN "check" ELSE "print"

FirstStep(o) == IF o \in FileOps THEN "check" ELSE "print"

\* mutant: log and error go on to the file after printing
AfterPrintAlwaysFile(o) == IF o = "error_and_stop" THEN "exit" ELSE "check"

AfterPrint(o) ==
    IF o = "error_and_stop" THEN "exit"
    ELSE IF o \in {"log", "error"} THEN "done"
    ELSE "check"

\* mutant: error_and_stop_to_file forgets to exit
AfterWriteNoExit(o) == "done"

AfterWrite(o) == IF o = "error_and_stop_to_file" THEN "exit" ELSE "done"

\* ------------------------------------------------------------ file system
\* fs::read_to_string succeeds only on a file that exists; even then it can fail
ReadOutcomes == IF fs.exists THEN {TRUE, FALSE} ELSE {FALSE}

\* fs::write = open with create+truncate, then write_all.  A failure to open
\* leaves the file as it was; a failure while writing leaves a proper prefix.
WriteFailures(data) ==
    {fs} \cup {[exists |-> TRUE, content |-> SubSeq(data, 1, k)] : k \in 0 .. (Len(data) - 1)}

\* ----------------------------------------------------------------- panic
\* panic!(..): the thread unwinds; a panic of the main thread ends the process
\* mutant: the failure is reported but the process goes on
PanicKeepsRunning(t, m) ==
    /\ fault' = [fault EXCEPT ![t] = m]
    /\ pc' = [pc EXCEPT ![t] = "panicked"]
    /\ UNCHANGED exit_code

Panic(t, m) ==
    /\ fault' = [fault EXCEPT ![t] = m]
    /\ pc' = [pc EXCEPT ![t] = "panicked"]
    /\ exit_code' = IF t = MainThread THEN PanicExitCode ELSE exit_code

Running(t) == exit_code = NoExit /\ t \in DOMAIN pc

\* ------------------------------------------------------------ Logger::new
new(t, logger_name, file_log, use_utc) ==
    /\ Running(t) /\ pc[t] = "idle"
    /\ op' = [op EXCEPT ![t] = "new"]
    /\ arg' = [arg EXCEPT ![t] = [built |-> TRUE, logger_name |-> logger_name,
                                  file_log |-> file_log, use_utc |-> use_utc]]
    /\ pc' = [pc EXCEPT ![t] = IF file_log = None THEN "done" ELSE "new_exists"]
    /\ UNCHANGED <<fs, stdout, exit_code, logger, msg, buf, fault>>

\* mutant: the constructor writes an empty file without reading the old one
NewExistsSkipRead(t) ==
    /\ Running(t) /\ pc[t] = "new_exists"
    /\ pc' = [pc EXCEPT ![t] = "new_write"]
    /\ UNCHANGED <<fs, stdout, exit_code, logger, op, msg, arg, buf, fault>>

\* std::path::Path::new(&file).exists(); file_log_content starts as String::new()
NewExists(t) ==
    /\ Running(t) /\ pc[t] = "new_exists"
    /\ pc' = [pc EXCEPT ![t] = IF fs.exists THEN "new_read" ELSE "new_write"]
    /\ UNCHANGED <<fs, stdout, exit_code, logger, op, msg, arg, buf, fault>>

NewRead(t) ==
    /\ Running(t) /\ pc[t] = "new_read"
    /\ \E ok \in ReadOutcomes :
         IF ok
         THEN /\ buf' = [buf EXCEPT ![t] = fs.content]
              /\ pc' = [pc EXCEPT ![t] = "new_write"]
              /\ UNCHANGED <<fault, exit_code>>
         ELSE /\ Panic(t, CouldNotRead)
              /\ UNCHANGED buf
    /\ UNCHANGED <<fs, stdout, logger, op, msg, arg>>

NewWrite(t) ==
    /\ Running(t) /\ pc[t] = "new_write"
    /\ \/ /\ fs' = [exists |-> TRUE, content |-> buf[t]]
          /\ pc' = [pc EXCEPT ![t] = "done"]
          /\ UNCHANGED <<fault, exit_code>>
       \/ /\ fs' \in WriteFailures(buf[t])
          /\ Panic(t, CouldNotCreate)
    /\ UNCHANGED <<stdout, logger, op, msg, arg, buf>>

\* ------------------------------------------------------- the operations
Enter(t, o, m) ==
    /\ Running(t) /\ pc[t] = "idle"
    /\ logger[t] # NoLogger
    /\ o \in FileOps \cup BothOps => Len(fs.content) < MaxFile
    /\ o \in ConsoleOps \cup BothOps => Len(stdout) < MaxStdout
    /\ op' = [op EXCEPT ![t] = o]
    /\ msg' = [msg EXCEPT ![t] = m]
    /\ pc' = [pc EXCEPT ![t] = FirstStep(o)]
    /\ UNCHANGED <<fs, stdout, exit_code, logger, arg, buf, fault>>

log(t, m) == Enter(t, "log", m)
log_to_file(t, m) == Enter(t, "log_to_file", m)
log_and_log_to_file(t, m) == Enter(t, "log_and_log_to_file", m)
error(t, m) == Enter(t, "error", m)
error_to_file(t, m) == Enter(t, "error_to_file", m)
error_and_error_to_file(t, m) == Enter(t, "error_and_error_to_file", m)
error_and_stop(t, m) == Enter(t, "error_and_stop", m)
error_and_stop_to_file(t, m) == Enter(t, "error_and_stop_to_file", m)

\* println!("{}", to_log)
PrintStep(t) ==
    /\ Running(t) /\ pc[t] = "print"
    /\ stdout' = Append(stdout, FormatLine(Prefix(op[t]), logger[t], msg[t]))
    /\ pc' = [pc EXCEPT ![t] = AfterPrint(op[t])]
    /\ UNCHANGED <<fs, exit_code, logger, op, msg, arg, buf, fault>>

\* mutant: a missing file path is silently ignored
CheckStepSilent(t) ==
    /\ Running(t) /\ pc[t] = "check"
    /\ pc' = [pc EXCEPT ![t] = IF logger[t].file_log # None THEN "read" ELSE "done"]
    /\ UNCHANGED <<fs, stdout, exit_code, logger, op, msg, arg, buf, fault>>

\* if let Some(file_log) = &self.file_log { .. } else { panic!(..) }
CheckStep(t) ==
    /\ Running(t) /\ pc[t] = "check"
    /\ IF logger[t].file_log # None
       THEN /\ pc' = [pc EXCEPT ![t] = "read"]
            /\ UNCHANGED <<fault, exit_code>>
       ELSE Panic(t, NotProvided)
    /\ UNCHANGED <<fs, stdout, logger, op, msg, arg, buf>>

\* let file_log_content = fs::read_to_string(..).unwrap_or_else(panic)
ReadStep(t) ==
    /\ Running(t) /\ pc[t] = "read"
    /\ \E ok \in ReadOutcomes :
         IF ok
         THEN /\ buf' = [buf EXCEPT ![t] = fs.content]
              /\ pc' = [pc EXCEPT ![t] = "write"]
              /\ UNCHANGED <<fault, exit_code>>
         ELSE /\ Panic(t, CouldNotRead)
              /\ UNCHANGED buf
    /\ UNCHANGED <<fs, stdout, logger, op, msg, arg>>

\* mutant: the "\n" separator is left out
NewContentNoSep(t) ==
    buf[t] \o <<FormatLine(Prefix(op[t]), logger[t], msg[t])>>

\* mutant: the line is appended to what the file holds at the write
NewContentAppend(t) ==
    fs.content \o <<NL>> \o <<FormatLine(Prefix(op[t]), logger[t], msg[t])>>

\* the bytes handed to fs::write: file_log_content + "\n" + &format!(..)
NewContent(t) ==
    buf[t] \o <<NL>> \o <<FormatLine(Prefix(op[t]), logger[t], msg[t])>>

\* fs::write(..).unwrap_or_else(panic)
WriteStep(t) ==
    /\ Running(t) /\ pc[t] = "write"
    /\ \/ /\ fs' = [exists |-> TRUE, content |-> NewContent(t)]
          /\ pc' = [pc EXCEPT ![t] = AfterWrite(op[t])]
          /\ UNCHANGED <<fault, exit_code>>
       \/ /\ fs' \in WriteFailures(NewContent(t))
          /\ Panic(t, CouldNotCreate)
    /\ UNCHANGED <<stdout, logger, op, msg, arg, buf>>

\* std::process::exit(1)
ExitStep(t) ==
    /\ Running(t) /\ pc[t] = "exit"
    /\ exit_code' = ExitFailure
    /\ pc' = [pc EXCEPT ![t] = "exited"]
    /\ UNCHANGED <<fs, stdout, logger, op, msg, arg, buf, fault>>

\* the call returns to its caller: its locals are dropped, and Logger::new
\* hands the Logger it built to the caller
ReturnStep(t) ==
    /\ Running(t) /\ pc[t] = "done"
    /\ logger' = [logger EXCEPT ![t] = IF op[t] = "new" THEN arg[t] ELSE logger[t]]
    /\ pc' = [pc EXCEPT ![t] = "idle"]
    /\ op' = [op EXCEPT ![t] = "none"]
    /\ msg' = [msg EXCEPT ![t] = ""]
    /\ arg' = [arg EXCEPT ![t] = NoLogger]
    /\ buf' = [buf EXCEPT ![t] = <<>>]
    /\ UNCHANGED <<fs, stdout, exit_code, fault>>

\* ------------------------------------------------------------------ Init
InitFiles ==
    { [exists |-> FALSE, content |-> <<>>],
      [exists |-> TRUE, content |-> <<>>],
      [exists |-> TRUE, content |-> <<Old>>] }

InitFor(callers, lg) ==
    /\ fs \in InitFiles
    /\ stdout = <<>>
    /\ exit_code = NoExit
    /\ logger = [t \in callers |-> lg]
    /\ pc = [t \in callers |-> "idle"]
    /\ op = [t \in callers |-> "none"]
    /\ msg = [t \in callers |-> ""]
    /\ arg = [t \in callers |-> NoLogger]
    /\ buf = [t \in callers |-> <<>>]
    /\ fault = [t \in callers |-> NoFault]

\* the documented execution model: one caller, the main thread
Init == InitFor({MainThread}, NoLogger)

\* an embedding application that shares one Logger, already constructed (so
\* its file exists), between two threads
InitConc ==
    /\ \E n \in Names, f \in {None, Path}, u \in BOOLEAN :
         InitFor(Threads, [built |-> TRUE, logger_name |-> n, file_log |-> f, use_utc |-> u])
    /\ fs.exists

Next ==
    \E t \in Threads :
        \/ \E n \in Names, f \in {None, Path}, u \in BOOLEAN : new(t, n, f, u)
        \/ NewExists(t)
        \/ NewRead(t)
        \/ NewWrite(t)
        \/ \E m \in Msgs : log(t, m)
        \/ \E m \in Msgs : log_to_file(t, m)
        \/ \E m \in Msgs : log_and_log_to_file(t, m)
        \/ \E m \in Msgs : error(t, m)
        \/ \E m \in Msgs : error_to_file(t, m)
        \/ \E m \in Msgs : error_and_error_to_file(t, m)
        \/ \E m \in Msgs : error_and_stop(t, m)
        \/ \E m \in Msgs : error_and_stop_to_file(t, m)
        \/ PrintStep(t)
        \/ CheckStep(t)
        \/ ReadStep(t)
        \/ WriteStep(t)
        \/ ExitStep(t)
        \/ ReturnStep(t)

Spec == Init /\ [][Next]_vars

NextConc ==
    \E t \in Threads :
        \/ \E m \in Msgs : log_to_file(t, m)
        \/ \E m \in Msgs : error_to_file(t, m)
        \/ CheckStep(t)
        \/ ReadStep(t)
        \/ WriteStep(t)
        \/ ReturnStep(t)

SpecConc == InitConc /\ [][NextConc]_vars

TypeOK ==
    /\ fs.exists \in BOOLEAN
    /\ exit_code \in {NoExit, ExitFailure, PanicExitCode}
    /\ \A t \in DOMAIN pc : op[t] \in Ops \cup {"new", "none"}

\* ===================================================================
\* Properties
\* ===================================================================
Callers == DOMAIN pc

Stepped(t) == pc'[t] # pc[t]

Last(s) == s[Len(s)]

IsProperPrefix(p, s) == Len(p) < Len(s) /\ p = SubSeq(s, 1, Len(p))

ErrorClass == {"error", "error_to_file", "error_and_error_to_file",
               "error_and_stop", "error_and_stop_to_file"}

\* the line the specification prescribes for the call thread t is running
Expected(t) ==
    [kind |-> "line",
     prefix |-> IF op[t] \in ErrorClass THEN "ERROR: " ELSE "",
     name |-> logger[t].logger_name,
     stamp |-> [zone |-> IF logger[t].use_utc THEN "UTC" ELSE "Local", quoted |-> TRUE],
     msg |-> msg[t]]

WroteOk(t) == pc[t] = "write" /\ pc'[t] \in {"done", "exit"}

\* C1: a successful file write leaves the file holding exactly the content it
\* held before, then one "\n", then the formatted line of the message, and
\* nothing after it.
C1_AppendExact ==
    [][\A t \in Callers :
         WroteOk(t) =>
            /\ fs'.exists
            /\ fs'.content = fs.content \o <<NL, Expected(t)>>]_vars

C1_Witness ==
    \E t \in Callers :
        /\ pc[t] = "done" /\ op[t] \in FileOps \cup BothOps
        /\ buf[t] # <<>> /\ buf[t][1] = Old
        /\ fs.content = buf[t] \o <<NL, Expected(t)>>

\* C2: log_to_file("hello") on a file that is empty (as Logger::new creates it)
\* leaves exactly one line in the file, with no "\n" before it.
C2_NoLeadingNewline ==
    \A t \in Callers :
        (pc[t] = "done" /\ op[t] = "log_to_file" /\ msg[t] = "hello" /\ buf[t] = <<>>)
            => (Len(fs.content) = 1 /\ fs.content[1] = Expected(t))

\* C3: on a Logger without a file path, log_to_file, error_to_file and
\* error_and_stop_to_file panic with "Log file not provided." without reaching
\* a read or a write of the file, leave the file as it is, and never return.
C3_NoPathRejected ==
    [][\A t \in Callers :
         (Stepped(t) /\ op'[t] \in FileOps /\ logger[t].file_log = None) =>
            /\ fs' = fs
            /\ stdout' = stdout
            /\ pc[t] = "idle" => pc'[t] = "check"
            /\ pc[t] # "idle" =>
                 /\ pc[t] = "check"
                 /\ pc'[t] = "panicked"
                 /\ fault'[t] = "Log file not provided."]_vars

C3_Witness ==
    \E t \in Callers :
        /\ pc[t] = "panicked" /\ op[t] = "error_and_stop_to_file"
        /\ logger[t].file_log = None
        /\ fault[t] = "Log file not provided."

\* C4 (as stated): every failure ends the process with exit status 1.
C4_FailuresExitOne ==
    \A t \in Callers : fault[t] # NoFault => exit_code = 1

\* C4 (amended): every failure (missing file path, failed read, failed write,
\* in the constructor and in every file operation) is a panic with its
\* diagnostic message, which ends the process of the single caller with the
\* panic status 101 and never returns; exit status 1 is produced only by
\* error_and_stop and error_and_stop_to_file after their output succeeded.
C4_FailuresPanic ==
    \A t \in Callers :
        /\ fault[t] # NoFault =>
              /\ pc[t] = "panicked"
              /\ exit_code = 101
              /\ fault[t] \in {"Log file not provided.", "Could not read log file",
                               "Could not create log file"}
              /\ op[t] \in {"new"} \cup FileOps \cup BothOps
        /\ pc[t] = "panicked" => fault[t] # NoFault
        /\ exit_code = 1 =>
              /\ pc[t] = "exited"
              /\ op[t] \in {"error_and_stop", "error_and_stop_to_file"}
              /\ fault[t] = NoFault

C4_Witness ==
    \E t \in Callers :
        /\ op[t] = "new" /\ fault[t] = "Could not create log file"
        /\ exit_code = 101

\* C5: a successful Logger::new with a file path leaves the file existing with
\* the content it had (empty when it did not exist), also when it is run again
\* on the same file; Logger::new without a file path touches no file.
C5_NewKeepsContent ==
    [][\A t \in Callers :
         (Stepped(t) /\ op'[t] = "new") =>
            /\ (pc[t] = "new_write" /\ pc'[t] = "done") =>
                  /\ fs'.exists
                  /\ fs'.content = IF fs.exists THEN fs.content ELSE <<>>
            /\ pc[t] # "new_write" => fs' = fs
            /\ arg'[t].file_log = None => (fs' = fs /\ pc'[t] = "done")]_vars

C5_Witness ==
    \E t \in Callers :
        /\ pc[t] = "done" /\ op[t] = "new" /\ arg[t].file_log = Path
        /\ logger[t] # NoLogger /\ logger[t].file_log = Path
        /\ fs = [exists |-> TRUE, content |-> <<Old>>]

\* C6: log, error and error_and_stop never change the file and never panic
\* (with or without a file path); log_to_file, error_to_file and
\* error_and_stop_to_file never change standard output, on any path.
C6_Isolation ==
    [][\A t \in Callers :
         /\ (Stepped(t) /\ op'[t] \in ConsoleOps) =>
               (fs' = fs /\ pc'[t] # "panicked" /\ fault'[t] = NoFault)
         /\ (Stepped(t) /\ op'[t] \in FileOps) => stdout' = stdout]_vars

C6_Witness ==
    \E t \in Callers :
        /\ pc[t] = "done" /\ op[t] = "error"
        /\ logger[t].file_log = None
        /\ stdout = <<Expected(t)>>

\* the course of log_and_log_to_file / error_and_error_to_file, up to what a
\* failed write leaves in the file
CombinedCourse(t, AfterFailedWrite(_)) ==
    (Stepped(t) /\ op'[t] \in BothOps) =>
        /\ pc[t] = "idle" => (pc'[t] = "print" /\ fs' = fs /\ stdout' = stdout)
        /\ pc[t] = "print" =>
              /\ pc'[t] = "check" /\ fs' = fs
              /\ stdout' = Append(stdout, Expected(t))
        /\ pc[t] = "check" =>
              (pc'[t] \in {"read", "panicked"} /\ fs' = fs /\ stdout' = stdout)
        /\ pc[t] = "read" =>
              (pc'[t] \in {"write", "panicked"} /\ fs' = fs /\ stdout' = stdout)
        /\ pc[t] = "write" =>
              /\ stdout' = stdout
              /\ stdout # <<>> /\ Last(stdout) = Expected(t)
              /\ pc'[t] \in {"done", "panicked"}
              /\ pc'[t] = "done" =>
                    fs'.content = fs.content \o <<NL, Expected(t)>>
              /\ pc'[t] = "panicked" => AfterFailedWrite(t)
        /\ pc[t] \in {"idle", "print", "check", "read", "write"}

C7_Unmodified(t) == fs' = fs

C7_UnmodifiedOrPrefix(t) ==
    \/ fs' = fs
    \/ /\ fs'.exists
       /\ IsProperPrefix(fs'.content, fs.content \o <<NL, Expected(t)>>)

\* C7 (as stated): the combined operations print the console line before any
\* file read or write, on success add exactly one console line and one file
\* line for the same message, and on any fatal failure of the file step the
\* console line is out and the file is unmodified.
C7_FileUnmodifiedOnFailure ==
    [][\A t \in Callers : CombinedCourse(t, C7_Unmodified)]_vars

\* C7 (amended): as stated, except that a failure of the write itself leaves
\* the file either unmodified (it could not be opened) or holding a proper
\* prefix of the content being written (it was truncated before the failure).
C7_ConsoleThenFile ==
    [][\A t \in Callers : CombinedCourse(t, C7_UnmodifiedOrPrefix)]_vars

C7_Witness ==
    \E t \in Callers :
        /\ pc[t] = "panicked" /\ op[t] = "log_and_log_to_file"
        /\ fault[t] = "Could not create log file"
        /\ stdout # <<>> /\ Last(stdout) = Expected(t)
        /\ fs.content = <<>> /\ buf[t] = <<Old>>

\* C8: every line an error-class operation puts on the console or in the file
\* is "ERROR: " followed by name, timestamp and message; every line of a
\* non-error operation is name, timestamp and message without that prefix.
C8_PrefixCorrect ==
    [][\A t \in Callers :
         /\ (Stepped(t) /\ stdout' # stdout) =>
               /\ Len(stdout') = Len(stdout) + 1
               /\ Last(stdout') = Expected(t)
               /\ Last(stdout').prefix = "ERROR: " <=> op[t] \in ErrorClass
         /\ WroteOk(t) =>
               /\ Last(fs'.content) = Expected(t)
               /\ Last(fs'.content).prefix = "ERROR: " <=> op[t] \in ErrorClass]_vars

C8_Witness ==
    \E t \in Callers :
        /\ pc[t] = "exit" /\ op[t] = "error_and_stop_to_file"
        /\ Last(fs.content).prefix = "ERROR: "
        /\ Last(fs.content).msg = msg[t]

\* C9: error_and_stop_to_file exits (status 1) only after its write succeeded,
\* so a process it stopped left the file holding the previous content, "\n"
\* and the ERROR line; a failed read or write makes it panic instead; neither
\* it nor error_and_stop ever returns, and error_and_stop exits with status 1
\* right after printing its line.
C9_StopAfterWrite ==
    \A t \in Callers :
        /\ (op[t] = "error_and_stop_to_file" /\ pc[t] \in {"exit", "exited"}) =>
              /\ logger[t].file_log # None
              /\ fault[t] = NoFault
              /\ Expected(t).prefix = "ERROR: " /\ fs.content = buf[t] \o <<NL, Expected(t)>>
        /\ (op[t] = "error_and_stop" /\ pc[t] \in {"exit", "exited"}) =>
              /\ stdout # <<>>
              /\ Last(stdout) = Expected(t)
              /\ Last(stdout).prefix = "ERROR: "
        /\ op[t] \in {"error_and_stop", "error_and_stop_to_file"} =>
              /\ pc[t] \in {"print", "check", "read", "write", "exit", "exited", "panicked"}
              /\ pc[t] = "exited" <=> exit_code = 1
              /\ pc[t] = "panicked" <=> exit_code = 101
              /\ pc[t] = "panicked" => op[t] = "error_and_stop_to_file"

C9_Witness ==
    \E t \in Callers :
        /\ pc[t] = "exited" /\ op[t] = "error_and_stop_to_file" /\ exit_code = 1
        /\ buf[t] = <<Old>> /\ Len(fs.content) = 3

\* C10: the file write is a read step and a later write step without mutual
\* exclusion: a successful write replaces the file by what its caller read
\* plus its own line, so it keeps everything when nobody wrote since the read
\* (calls that do not overlap), and drops what another caller wrote in
\* between (the last writer wins; the other line is lost).
C10_LastWriterWins ==
    [][\A t \in Callers :
         WroteOk(t) =>
            /\ fs'.content = buf[t] \o <<NL, Expected(t)>>
            /\ fs.content = buf[t] =>
                  fs'.content = fs.content \o <<NL, Expected(t)>>
            /\ \A u \in Callers \ {t} :
                  (pc[u] = "done" /\ buf[u] = buf[t] /\ fs.content # buf[t]) =>
                      /\ Len(fs'.content) = Len(fs.content)
                      /\ Last(fs'.content) = Expected(t)]_vars

\* both callers read the same content before either wrote, both writes
\* succeeded, and the file holds one appended line only
C10_Witness ==
    /\ \A t \in Threads :
          t \in Callers /\ pc[t] = "done" /\ op[t] \in FileOps /\ buf[t] = <<Old>>
    /\ msg[1] # msg[2]
    /\ Len(fs.content) = 3
    /\ Last(fs.content).msg = msg[2]
====
